---- MODULE Spec2Model ----
(***************************************************************************)
(* The image fusion pipeline of GEE_ImageFusion (prep_functions.py,        *)
(* core_functions.py) as driven by Demo_Script/Predict_L8.py, followed at  *)
(* one pixel of the output grid.                                           *)
(*                                                                         *)
(* Every Earth Engine image is represented by what it holds at that pixel: *)
(* a sequence of bands, each a name and a value.  A value is a rational    *)
(* <<n, d>> in lowest terms with d > 0, or the masked (no-data) value      *)
(* <<0, 0>>.  An array image holds a matrix (a sequence of rows) at the    *)
(* pixel, or is masked there.  Band names are sequences of characters so   *)
(* that the regular expressions of the code select by what they match.     *)
(***************************************************************************)
EXTENDS Integers, Sequences, FiniteSets, TLC

VARIABLES
    pc,             \* position in Predict_L8.py
    commonBandNames,   \* the bands that are fused
    landsatCollection, \* getPaired: the filtered Landsat collection
    modisCollection,   \* getPaired: the filtered MODIS collection
    paired,         \* getPaired: landsatPaired, modisPaired, modisUnpaired
    subs,           \* makeSubcollections: one list per pair of paired dates
    listIndex,      \* i of "for i in range(0, num_lists)"
    groupIndex,     \* x of "for x in range(0, index_seq.length())"
    kernelRadius,   \* radius of the moving window
    landsat_t01,    \* the two Landsat rasters (t0, t1) around the pixel
    modis_t01,      \* the two MODIS rasters (t0, t1) around the pixel
    modis_tp,       \* the MODIS rasters of the prediction dates
    maskedLandsat,  \* prepLandsat: one image per window position
    pixPositions,   \* prepLandsat: the position names "_x_y"
    pixBN,          \* prepLandsat: per position, the names doy_band_position
    modSorted_t01,  \* prepMODIS: one image per window position
    modSorted_tp,   \* prepMODIS: per prediction date, one image per position
    specDist,       \* calcSpecDist
    spatDist,       \* calcSpatDist
    weights,        \* calcWeight
    coeffs,         \* calcConversionCoeff
    prediction      \* predictLandsat, one record per prediction date

vars == <<pc, commonBandNames, landsatCollection, modisCollection, paired,
          subs, listIndex, groupIndex, kernelRadius, landsat_t01, modis_t01, modis_tp, maskedLandsat,
          pixPositions, pixBN, modSorted_t01, modSorted_tp, specDist,
          spatDist, weights, coeffs, prediction>>

-----------------------------------------------------------------------------
(* Numbers.                                                                *)

\* the value x, held in evaluated form
Force(x) == IF x = x THEN x ELSE x

Masked == <<0, 0>>

IsMasked(v) == v[2] = 0

AbsInt(i) == IF i < 0 THEN -i ELSE i

RECURSIVE GCD(_, _)
GCD(a, b) == IF b = 0 THEN a ELSE GCD(b, a % b)

\* the rational n/d in lowest terms, d # 0
Norm(n, d) ==
    LET g == GCD(AbsInt(n), AbsInt(d))
    IN  IF d < 0 THEN <<(-n) \div g, (-d) \div g>> ELSE <<n \div g, d \div g>>

R(i) == <<i, 1>>

Zero == R(0)

One == R(1)

\* a / b + c / d over the least common denominator
NumAdd(a, b) ==
    LET g == GCD(a[2], b[2])
    IN  Norm(a[1] * (b[2] \div g) + b[1] * (a[2] \div g),
             (a[2] \div g) * b[2])

NumSub(a, b) == NumAdd(a, <<-b[1], b[2]>>)

\* (a / b) * (c / d), with the common factors taken out before multiplying
NumMul(a, b) ==
    LET g1 == GCD(AbsInt(a[1]), b[2])
        g2 == GCD(AbsInt(b[1]), a[2])
    IN  Norm((a[1] \div g1) * (b[1] \div g2),
             (a[2] \div g2) * (b[2] \div g1))

NumAbs(a) == <<AbsInt(a[1]), a[2]>>

NumLte(a, b) == a[1] * b[2] <= b[1] * a[2]

\* ee divide: "returning 0 for division by 0"
NumDivide(a, b) ==
    IF b[1] = 0 THEN Zero
    ELSE NumMul(a, IF b[1] < 0 THEN <<-b[2], -b[1]>> ELSE <<b[2], b[1]>>)

\* the digits after the point that a square root keeps
SqrtScale == 4

RECURSIVE ISqrtFrom(_, _)
ISqrtFrom(x, s) == IF (s + 1) * (s + 1) > x THEN s ELSE ISqrtFrom(x, s + 1)

\* ee.Number.sqrt: exact on a perfect square, else cut to the kept precision
NumSqrt(a) ==
    LET x == (a[1] * SqrtScale * SqrtScale) \div a[2]
    IN  IF a[2] = 1 /\ ISqrtFrom(a[1], 0) * ISqrtFrom(a[1], 0) = a[1]
        THEN R(ISqrtFrom(a[1], 0))
        ELSE Norm(ISqrtFrom(x, 0), SqrtScale)

\* Image.lte: 1 where the comparison holds, 0 where it does not
BoolLte(x, y) == IF NumLte(x, y) THEN One ELSE Zero

\* 1 / x with the division of Earth Engine
Inverse(x) == NumDivide(One, x)

\* the binary operations of ee.Image by name
NumOp(op, a, b) ==
    CASE op = "add"      -> NumAdd(a, b)
      [] op = "subtract" -> NumSub(a, b)
      [] op = "multiply" -> NumMul(a, b)
      [] op = "divide"   -> NumDivide(a, b)
      [] op = "lte"      -> BoolLte(a, b)

\* the unary operations used on array images: abs(), and constant(1).divide
NumOp1(op, a) ==
    CASE op = "abs"     -> NumAbs(a)
      [] op = "inverse" -> Inverse(a)

\* an operation on pixel values: masked where either operand is masked
Px2(op, a, b) ==
    IF IsMasked(a) \/ IsMasked(b) THEN Masked ELSE NumOp(op, a, b)

-----------------------------------------------------------------------------
(* Strings: a string is the sequence of its characters.                    *)

Digits == <<"0", "1", "2", "3", "4", "5", "6", "7", "8", "9">>

IsDigit(c) == \E i \in 1..10 : Digits[i] = c

DigitVal(c) == (CHOOSE i \in 1..10 : Digits[i] = c) - 1

IsLower(c) == c \in {"a", "b", "c", "d", "e", "f", "g", "h", "i", "j", "k",
                     "l", "m", "n", "o", "p", "q", "r", "s", "t", "u", "v",
                     "w", "x", "y", "z"}

Cat(s, t) == s \o t

RECURSIVE FormatNat(_)
FormatNat(i) == IF i < 10 THEN <<Digits[i + 1]>>
                ELSE Append(FormatNat(i \div 10), Digits[(i % 10) + 1])

\* the decimal text of an integer, as it appears in a band name
FormatInt(i) == IF i < 0 THEN <<"-">> \o FormatNat(-i) ELSE FormatNat(i)

\* last index of the run of digits of s that starts at i
RECURSIVE DigitRunEnd(_, _)
DigitRunEnd(s, i) ==
    IF i < Len(s) /\ IsDigit(s[i + 1]) THEN DigitRunEnd(s, i + 1) ELSE i

\* last index of the run of lower-case letters of s that starts at i
RECURSIVE LowerRunEnd(_, _)
LowerRunEnd(s, i) ==
    IF i < Len(s) /\ IsLower(s[i + 1]) THEN LowerRunEnd(s, i + 1) ELSE i

\* ee.String.match('(-?[0-9]+)', 'g'): the matches found scanning from i
RECURSIVE MatchInts(_, _)
MatchInts(s, i) ==
    IF i > Len(s) THEN <<>>
    ELSE IF IsDigit(s[i])
         THEN <<SubSeq(s, i, DigitRunEnd(s, i))>>
                  \o MatchInts(s, DigitRunEnd(s, i) + 1)
    ELSE IF s[i] = "-" /\ i < Len(s) /\ IsDigit(s[i + 1])
         THEN <<SubSeq(s, i, DigitRunEnd(s, i + 1))>>
                  \o MatchInts(s, DigitRunEnd(s, i + 1) + 1)
    ELSE MatchInts(s, i + 1)

RECURSIVE ParseNat(_)
ParseNat(s) == IF s = <<>> THEN 0
               ELSE 10 * ParseNat(SubSeq(s, 1, Len(s) - 1)) + DigitVal(s[Len(s)])

\* ee.Number.parse of the text of an integer
NumberParse(s) == IF s[1] = "-" THEN R(-ParseNat(Tail(s))) ELSE R(ParseNat(s))

\* ee.String.replace('[a-z]+_', '_'): the first match, scanning from i
RECURSIVE ReplaceLowerPrefix(_, _)
ReplaceLowerPrefix(s, i) ==
    IF i > Len(s) THEN s
    ELSE IF IsLower(s[i]) /\ LowerRunEnd(s, i) < Len(s)
                          /\ s[LowerRunEnd(s, i) + 1] = "_"
         THEN SubSeq(s, 1, i - 1) \o <<"_">>
                  \o SubSeq(s, LowerRunEnd(s, i) + 2, Len(s))
    ELSE ReplaceLowerPrefix(s, i + 1)

\* a band selector prefix.cat('.+'): the whole name has to match
MatchesPrefixAny(name, prefix) ==
    /\ Len(name) > Len(prefix)
    /\ SubSeq(name, 1, Len(prefix)) = prefix

-----------------------------------------------------------------------------
(* Earth Engine images and arrays at the pixel.                            *)

Band(name, value) == [n |-> name, v |-> value]

BandNames(img) == Force([i \in 1..Len(img) |-> img[i].n])

\* Image.select with one regular expression prefix.cat('.+')
SelectPrefix(img, prefix) ==
    LET Test(b) == MatchesPrefixAny(b.n, prefix) IN SelectSeq(img, Test)

\* Image.select with a literal band name
SelectName(img, name) == LET Test(b) == b.n = name IN SelectSeq(img, Test)

\* Image.rename with a list of as many names as the image has bands
Rename(img, names) ==
    Force([i \in 1..Len(img) |-> Band(names[i], img[i].v)])

\* a binary operation of two images: bands pair up in order, and an image
\* of one band is used against every band of the other
ImageOp(op, a, b) ==
    Force(IF Len(a) = 1 /\ Len(b) > 1
          THEN [i \in 1..Len(b) |-> Band(b[i].n, Px2(op, a[1].v, b[i].v))]
          ELSE IF Len(b) = 1
          THEN [i \in 1..Len(a) |-> Band(a[i].n, Px2(op, a[i].v, b[1].v))]
          ELSE [i \in 1..Len(a) |-> Band(a[i].n, Px2(op, a[i].v, b[i].v))])

ImageAbs(a) ==
    Force([i \in 1..Len(a) |->
        Band(a[i].n, IF IsMasked(a[i].v) THEN Masked ELSE NumAbs(a[i].v))])

\* Image.updateMask: a band stays valid where its mask band is valid and
\* not zero
UpdateMask(img, mask) ==
    Force([i \in 1..Len(img) |->
        Band(img[i].n,
             IF IsMasked(mask[i].v) \/ mask[i].v = Zero THEN Masked
             ELSE img[i].v)])

\* Image.unmask: masked values become 0
Unmask(img) ==
    Force([i \in 1..Len(img) |->
        Band(img[i].n, IF IsMasked(img[i].v) THEN Zero ELSE img[i].v)])

RECURSIVE SumRange(_, _, _)
\* s[lo] + ... + s[hi], the masked values left out
SumRange(s, lo, hi) ==
    IF lo > hi THEN Zero
    ELSE IF lo = hi THEN (IF IsMasked(s[lo]) THEN Zero ELSE s[lo])
    ELSE NumAdd(SumRange(s, lo, (lo + hi) \div 2),
                SumRange(s, ((lo + hi) \div 2) + 1, hi))

\* the sum of the valid values of a sequence
SumValid(s) == SumRange(Force(s), 1, Len(s))

\* the number of valid values of a sequence
CountValid(s) == Cardinality({i \in 1..Len(s) : ~IsMasked(s[i])})

Values(img) == Force([i \in 1..Len(img) |-> img[i].v])

\* a reducer over values leaves the masked ones out, and has no result when
\* all of them are masked
ReduceSum(vals) ==
    IF CountValid(vals) = 0 THEN Masked ELSE SumValid(vals)

ReduceMean(vals) ==
    IF CountValid(vals) = 0 THEN Masked
    ELSE NumDivide(SumValid(vals), R(CountValid(vals)))

\* an array at the pixel, or no array (the array image is masked there)
Arr(a) == [valid |-> TRUE, a |-> Force(a)]

ArrMasked == [valid |-> FALSE, a |-> <<>>]

\* Image.toArray: the bands as a vector, "masked if any input bands are
\* masked"
ImageToArray(img) ==
    IF \E i \in 1..Len(img) : IsMasked(img[i].v) THEN ArrMasked
    ELSE Arr(Values(img))

\* arrayCat along axis 0
ArrayCat(x, y) ==
    IF x.valid /\ y.valid THEN Arr(x.a \o y.a) ELSE ArrMasked

\* the indices start, start + step, ... below end, counted from 0
SliceIndices(start, end, step) ==
    LET count == IF end <= start THEN 0
                 ELSE ((end - start - 1) \div step) + 1
    IN  [i \in 1..count |-> start + (i - 1) * step]

\* arraySlice along axis 0 with a step
ArraySlice(x, start, end, step) ==
    IF ~x.valid THEN ArrMasked
    ELSE LET hi  == IF end > Len(x.a) THEN Len(x.a) ELSE end
             idx == SliceIndices(start, hi, step)
         IN  Arr([i \in 1..Len(idx) |-> x.a[idx[i] + 1]])

\* arrayFlatten of a vector: one band per element, all masked where there
\* is no array
ArrayFlatten(x, names) ==
    Force([i \in 1..Len(names) |->
        Band(names[i], IF x.valid THEN x.a[i] ELSE Masked)])

RECURSIVE FlattenRange(_, _, _)
FlattenRange(ss, lo, hi) ==
    IF lo > hi THEN <<>>
    ELSE IF lo = hi THEN ss[lo]
    ELSE FlattenRange(ss, lo, (lo + hi) \div 2)
             \o FlattenRange(ss, ((lo + hi) \div 2) + 1, hi)

\* the concatenation of a sequence of sequences (List.flatten, toBands)
Flatten(ss) == FlattenRange(Force(ss), 1, Len(ss))

-----------------------------------------------------------------------------
(* The window.                                                             *)

\* numPixels of the script: (kernelRadius + (kernelRadius + 1)) ^ 2
NumPixelsOf(r) == (r + (r + 1)) * (r + (r + 1))

\* the offsets <<x, y>> of ee.Kernel.square(r) in the order of its bands:
\* row after row
KernelOffsets(r) ==
    Force([k \in 1..NumPixelsOf(r) |->
        <<((k - 1) % (2 * r + 1)) - r, ((k - 1) \div (2 * r + 1)) - r>>])

Underscore == <<"_">>

\* Image.neighborhoodToBands: for each band, one band per offset named
\* band_x_y with the value of the neighbour at that offset, masked where the
\* neighbour lies outside the raster
NeighborhoodToBands(raster, r) ==
    LET offsets == KernelOffsets(r)
    IN  Force(Flatten([j \in 1..Len(raster.names) |->
            [k \in 1..NumPixelsOf(r) |->
                Band(raster.names[j] \o Underscore
                         \o FormatInt(offsets[k][1]) \o Underscore
                         \o FormatInt(offsets[k][2]),
                     raster.win[j][k])]]))

\* the raster itself at the pixel: the value of each band at offset (0, 0)
CenterImage(raster, r) ==
    [j \in 1..Len(raster.names) |->
        Band(raster.names[j], raster.win[j][(NumPixelsOf(r) + 1) \div 2])]

-----------------------------------------------------------------------------
(* Properties of images.                                                   *)

Null == <<>>

GetProp(props, key) == IF key \in DOMAIN props THEN props[key] ELSE Null

SetProp(props, key, value) ==
    [x \in (DOMAIN props) \cup {key} |-> IF x = key THEN value ELSE props[x]]

NoProps == [x \in {} |-> Null]

-----------------------------------------------------------------------------
(* Configuration of the script.                                            *)

\* what the script does not touch while it runs the body of the batch loop
scriptVars == <<commonBandNames, landsatCollection, modisCollection, paired,
                subs, listIndex, groupIndex>>

\* coverClasses = 7
coverClasses == 7

\* doys of the script: the 'DOY' of each Landsat image with '_' appended
DoysOf(landsat) ==
    [i \in 1..Len(landsat) |-> GetProp(landsat[i].props, "DOY") \o Underscore]

ConstantImage(v) == <<Band(<<"c", "o", "n", "s", "t", "a", "n", "t">>, v)>>

-----------------------------------------------------------------------------
(* prep_functions.py                                                       *)

\* getThresh: the standard deviation of each band over the raster, times
\* 2 / coverClasses, in bands named band_thresh
getThresh(image, classes) ==
    LET stddev == [j \in 1..Len(image.names) |->
                      Band(image.names[j], image.sd[j])]
        names  == [j \in 1..Len(stddev) |->
                      stddev[j].n \o <<"_", "t", "h", "r", "e", "s", "h">>]
        thresh == ImageOp("multiply", stddev,
                          ConstantImage(NumDivide(R(2), R(classes))))
    IN  Rename(thresh, names)

threshold(landsat, classes) ==
    [i \in 1..Len(landsat) |-> getThresh(landsat[i], classes)]

\* the masks when each date is compared with the threshold of the other
threshMaskOtherDate(neighLandsat, thresh, bandNames) ==
    [i \in 1..2 |->
        [j \in 1..Len(bandNames) |->
            LET sel == SelectPrefix(neighLandsat[i], bandNames[j] \o Underscore)
                ctr == SelectName(sel, bandNames[j] \o <<"_", "0", "_", "0">>)
            IN  ImageOp("lte",
                        ImageAbs(ImageOp("subtract", ctr, sel)),
                        SelectPrefix(thresh[3 - i],
                                     bandNames[j] \o Underscore))]]

\* threshMask: per date and band, 1 at the positions whose value is within
\* the threshold of the value at position _0_0
threshMask(neighLandsat, thresh, bandNames) ==
    [i \in 1..2 |->
        [j \in 1..Len(bandNames) |->
            LET sel == SelectPrefix(neighLandsat[i], bandNames[j] \o Underscore)
                ctr == SelectName(sel, bandNames[j] \o <<"_", "0", "_", "0">>)
            IN  ImageOp("lte",
                        ImageAbs(ImageOp("subtract", ctr, sel)),
                        SelectPrefix(thresh[i], bandNames[j] \o Underscore))]]

\* pixelBandNames: per position, doy_band_position for each date and band
PixelBandNames(positions, doys, bandNames) ==
    [p \in 1..Len(positions) |->
        Flatten([d \in 1..Len(doys) |->
            [j \in 1..Len(bandNames) |->
                doys[d] \o Underscore \o bandNames[j] \o positions[p]]])]

\* the stack of t0 over t1 cut into runs of consecutive entries
PixArraysContiguous(arr, numPixels, bandNames) ==
    [i \in 1..numPixels |->
        ArraySlice(arr, (i - 1) * (Len(bandNames) * 2),
                   i * (Len(bandNames) * 2), 1)]

\* the stack of t0 over t1 cut into one vector per position
PixArrays(arr, numPixels, bandNames) ==
    [i \in 1..numPixels |->
        ArraySlice(arr, i - 1, numPixels * (Len(bandNames) * 2), numPixels)]

prepLandsat(landsat, r, numPixels, bandNames, doys, classes) ==
    LET neighLandsat == [i \in 1..Len(landsat) |->
                            NeighborhoodToBands(landsat[i], r)]
        names        == BandNames(neighLandsat[1])
        positions    == SubSeq([i \in 1..Len(names) |->
                                   ReplaceLowerPrefix(names[i], 1)],
                               1, numPixels)
        pixelNames   == PixelBandNames(positions, doys, bandNames)
        lanArr       == ArrayCat(ImageToArray(neighLandsat[1]),
                                 ImageToArray(neighLandsat[2]))
        pixArrays    == PixArrays(lanArr, numPixels, bandNames)
        lanSorted    == [i \in 1..numPixels |->
                            ArrayFlatten(pixArrays[i], pixelNames[i])]
        thresh       == threshold(landsat, classes)
        mask         == threshMask(neighLandsat, thresh, bandNames)
        maskArr      == ImageToArray(Flatten(Flatten(mask)))
        maskArrays   == PixArrays(maskArr, numPixels, bandNames)
        masksSorted  == [i \in 1..numPixels |->
                            ArrayFlatten(maskArrays[i], pixelNames[i])]
    IN  [maskedLandsat  |-> [i \in 1..numPixels |->
                                UpdateMask(lanSorted[i], masksSorted[i])],
         pixPositions   |-> positions,
         pixelBandNames |-> pixelNames]

\* the stacks when the first prediction image stands in for MODIS at t0
prepMODISFirstTarget(modis01, modisp, r, numPixels, bandNames, pixelNames) ==
    LET neigh01 == [i \in 1..Len(modis01) |->
                       NeighborhoodToBands(IF i = 1 /\ modisp # <<>>
                                           THEN modisp[1] ELSE modis01[i], r)]
        neighp  == [i \in 1..Len(modisp) |->
                       NeighborhoodToBands(modisp[i], r)]
        modArr  == ArrayCat(ImageToArray(neigh01[1]),
                            ImageToArray(neigh01[2]))
        arrs01  == PixArrays(modArr, numPixels, bandNames)
        arrsp   == [i \in 1..Len(neighp) |->
                       [x \in 1..numPixels |->
                           ArraySlice(ImageToArray(neighp[i]), x - 1,
                                      numPixels * Len(bandNames),
                                      numPixels)]]
    IN  [modSorted_t01 |-> [i \in 1..numPixels |->
                               ArrayFlatten(arrs01[i], pixelNames[i])],
         modSorted_tp  |-> [i \in 1..Len(arrsp) |->
                               [x \in 1..numPixels |->
                                   [bands |-> ArrayFlatten(arrsp[i][x],
                                                           bandNames),
                                    props |-> SetProp(NoProps, "DOY",
                                                GetProp(modisp[i].props,
                                                        "DOY"))]]]]

prepMODIS(modis01, modisp, r, numPixels, bandNames, pixelNames) ==
    LET neigh01 == [i \in 1..Len(modis01) |->
                       NeighborhoodToBands(modis01[i], r)]
        neighp  == [i \in 1..Len(modisp) |->
                       NeighborhoodToBands(modisp[i], r)]
        modArr  == ArrayCat(ImageToArray(neigh01[1]),
                            ImageToArray(neigh01[2]))
        arrs01  == PixArrays(modArr, numPixels, bandNames)
        arrsp   == [i \in 1..Len(neighp) |->
                       [x \in 1..numPixels |->
                           ArraySlice(ImageToArray(neighp[i]), x - 1,
                                      numPixels * Len(bandNames),
                                      numPixels)]]
    IN  [modSorted_t01 |-> [i \in 1..numPixels |->
                               ArrayFlatten(arrs01[i], pixelNames[i])],
         modSorted_tp  |-> [i \in 1..Len(arrsp) |->
                               [x \in 1..numPixels |->
                                   [bands |-> ArrayFlatten(arrsp[i][x],
                                                           bandNames),
                                    props |-> SetProp(NoProps, "DOY",
                                                GetProp(modisp[i].props,
                                                        "DOY"))]]]]

-----------------------------------------------------------------------------
(* Arrays of two dimensions.                                               *)

\* Image.toArray().toArray(1): the bands as a column
ColumnOf(img) == Arr([i \in 1..Len(img) |-> <<img[i].v>>])

\* matrixToDiag of a column: the square matrix with it on the diagonal
MatrixToDiag(x) ==
    IF ~x.valid THEN ArrMasked
    ELSE Arr([i \in 1..Len(x.a) |->
                [j \in 1..Len(x.a) |-> IF i = j THEN x.a[i][1] ELSE Zero]])

\* the product of row i of a and column j of b
Dot(a, i, b, j) == SumValid([k \in 1..Len(b) |-> NumMul(a[i][k], b[k][j])])

MatrixMultiply(x, y) ==
    IF ~x.valid \/ ~y.valid THEN ArrMasked
    ELSE Arr([i \in 1..Len(x.a) |->
                [j \in 1..Len(y.a[1]) |-> Dot(x.a, i, y.a, j)]])

\* the sum of column j of a matrix
ColumnSum(m, j) == SumValid([i \in 1..Len(m) |-> m[i][j]])

\* arrayReduce(ee.Reducer.sum(), [0]): one row holding the column sums
ArrayReduceSum0(x) ==
    IF ~x.valid THEN ArrMasked
    ELSE Arr(<<[j \in 1..Len(x.a[1]) |-> ColumnSum(x.a, j)]>>)

\* an operation on every element of an array
ArrayMap(op, x) ==
    IF ~x.valid THEN ArrMasked
    ELSE Arr([i \in 1..Len(x.a) |->
                [j \in 1..Len(x.a[i]) |-> NumOp1(op, x.a[i][j])]])

\* an operation on the elements of two arrays of the same shape
ArrayOp(op, x, y) ==
    IF ~x.valid \/ ~y.valid THEN ArrMasked
    ELSE Arr([i \in 1..Len(x.a) |->
                [j \in 1..Len(x.a[i]) |-> NumOp(op, x.a[i][j], y.a[i][j])]])

\* arrayProject([1]).arrayFlatten([names]) of an array of one row
ProjectFlatten(x, names) ==
    Force([j \in 1..Len(names) |->
        Band(names[j], IF x.valid THEN x.a[1][j] ELSE Masked)])

\* ImageCollection.toArray: "the images that have valid (unmasked) values
\* in all bands are laid out along the first axis"
CollectionToArray(images) ==
    LET AllValid(img) == \A i \in 1..Len(img) : ~IsMasked(img[i].v)
        rows          == SelectSeq(images, AllValid)
    IN  IF rows = <<>> THEN ArrMasked
        ELSE Arr([i \in 1..Len(rows) |-> Values(rows[i])])

-----------------------------------------------------------------------------
(* core_functions.py                                                       *)

\* the mean of the differences with their signs kept
calcSpecDistSigned(masked, modSorted, numPixels, positions) ==
    LET sDist == [index \in 1..numPixels |->
                    ReduceMean(Values(
                        ImageOp("subtract", masked[index], modSorted[index])))]
    IN  [i \in 1..numPixels |->
            Band(<<"s", "D", "i", "s", "t">> \o positions[i], sDist[i])]

calcSpecDist(masked, modSorted, numPixels, positions) ==
    LET sDist == [index \in 1..numPixels |->
                    ReduceMean(Values(ImageAbs(
                        ImageOp("subtract", masked[index], modSorted[index]))))]
    IN  [i \in 1..numPixels |->
            Band(<<"s", "D", "i", "s", "t">> \o positions[i], sDist[i])]

\* the distance of one position: 1 + sqrt(x^2 + y^2) / w2
\* the distance with the 1 under the root: sqrt(1 + x^2 + y^2) / w2
PositionDistanceUnderRoot(position, w2) ==
    LET m == MatchInts(position, 1)
        x == NumberParse(m[1])
        y == NumberParse(m[2])
    IN  NumDivide(NumSqrt(NumAdd(One, NumAdd(NumMul(x, x), NumMul(y, y)))),
                  w2)

PositionDistance(position, w2) ==
    LET m == MatchInts(position, 1)
        x == NumberParse(m[1])
        y == NumberParse(m[2])
    IN  NumAdd(One,
               NumDivide(NumSqrt(NumAdd(NumMul(x, x), NumMul(y, y))), w2))

\* w2 = (sqrt(number of positions) - 1) / 2
HalfWidth(positions) ==
    NumDivide(NumSub(NumSqrt(R(Len(positions))), One), R(2))

calcSpatDist(positions) ==
    [i \in 1..Len(positions) |->
        Band(<<"c", "o", "r", "r">> \o positions[i],
             PositionDistance(positions[i], HalfWidth(positions)))]

\* the normalized weights W before they are packed into the matrix
NormalizedWeights(spat, spec) ==
    LET disIndex == ImageOp("multiply", spec, spat)
        num      == ImageOp("divide", ConstantImage(One), disIndex)
        sumNum   == ConstantImage(ReduceSum(Values(num)))
    IN  ImageOp("divide", num, sumNum)

calcWeight(spat, spec) ==
    MatrixToDiag(ColumnOf(Unmask(NormalizedWeights(spat, spec))))

Suffixed(names, suffix) == [j \in 1..Len(names) |-> names[j] \o suffix]

\* Image.rename takes as many names as the image has bands
RenameDefined(img, names) == Len(img) = Len(names)

\* the selections by day of year can be renamed to the common band names
SelectionsRenamed(masked, modSorted, doys, bandNames) ==
    \A d \in 1..Len(doys), index \in 1..Len(masked) :
        /\ RenameDefined(SelectPrefix(modSorted[index], doys[d]), bandNames)
        /\ RenameDefined(SelectPrefix(masked[index], doys[d]), bandNames)

\* the images the regression is run over: for each date and position the
\* bands intercept, band_modis, band_landsat
RegressionInputs(masked, modSorted, doys, numPixels, bandNames) ==
    Flatten([d \in 1..Len(doys) |->
        [index \in 1..numPixels |->
            ConstantImage(One)
            \o Rename(SelectPrefix(modSorted[index], doys[d]),
                      Suffixed(bandNames, <<"_", "m", "o", "d", "i", "s">>))
            \o Rename(SelectPrefix(masked[index], doys[d]),
                      Suffixed(bandNames,
                               <<"_", "l", "a", "n", "d", "s", "a", "t">>))]])

\* the sums of the normal equations: of one column of the rows, and of the
\* product of two columns
SumColumn(rows, c) == SumValid([i \in 1..Len(rows) |-> rows[i][c]])

SumProduct(rows, c, d) ==
    SumValid([i \in 1..Len(rows) |-> NumMul(rows[i][c], rows[i][d])])

\* the matrix m without row 1 and column j
Minor(m, j) ==
    [a \in 1..(Len(m) - 1) |->
        [b \in 1..(Len(m) - 1) |-> m[a + 1][IF b < j THEN b ELSE b + 1]]]

RECURSIVE Det(_)
\* the determinant, expanded along the first row
Det(m) ==
    IF Len(m) = 1 THEN m[1][1]
    ELSE SumValid([j \in 1..Len(m) |->
             NumMul(IF j % 2 = 1 THEN m[1][j] ELSE NumSub(Zero, m[1][j]),
                    Det(Minor(m, j)))])

\* the normal equations of the least squares fit of the columns after
\* numX on the first numX columns
NormalMatrix(rows, numX) ==
    [a \in 1..numX |-> [b \in 1..numX |-> SumProduct(rows, a, b)]]

NormalRhs(rows, numX, y) ==
    [a \in 1..numX |-> SumProduct(rows, a, numX + y)]

ReplaceColumn(m, c, v) ==
    [a \in 1..Len(m) |-> [b \in 1..Len(m) |-> IF b = c THEN v[a] ELSE m[a][b]]]

\* the fit of each regressor on its own, without the constant
LeastSquaresNoIntercept(rows, numX, numY) ==
    Arr([a \in 1..numX |->
            [y \in 1..numY |->
                IF a = 1 THEN Zero
                ELSE NumDivide(SumProduct(rows, a, numX + y),
                               SumProduct(rows, a, a))]])

\* the coefficients (numX rows, numY columns) of a determined fit
LeastSquares(rows, numX, numY) ==
    LET m == NormalMatrix(rows, numX)
        d == Det(m)
    IN  Arr([a \in 1..numX |->
                [y \in 1..numY |->
                    NumDivide(Det(ReplaceColumn(m, a, NormalRhs(rows, numX, y))),
                              d)]])

\* what the reducer may give when the rows do not determine the fit: no
\* result, or the fit of slope 0 through the means
SingularFits(rows, numX, numY) ==
    {ArrMasked,
     Arr([a \in 1..numX |->
             [y \in 1..numY |->
                 IF a = 1 THEN NumDivide(SumColumn(rows, numX + y),
                                         R(Len(rows)))
                 ELSE Zero]])}

\* the least squares fit given for any number of rows
LinearRegressionAnyCount(rows, numX, numY) ==
    {LeastSquares(rows, numX, numY)}

\* ee.Reducer.linearRegression(numX, numY) over rows of numX independent
\* values followed by numY dependent ones: the array of numX rows and numY
\* columns of the least squares fit, and no result when "the number of
\* inputs is less than or equal to numX"
LinearRegression(rows, numX, numY) ==
    IF Len(rows) <= numX THEN {ArrMasked}
    ELSE IF Det(NormalMatrix(rows, numX)) = Zero
         THEN SingularFits(rows, numX, numY)
    ELSE {LeastSquares(rows, numX, numY)}

\* arraySlice(0, 1, numX) of the coefficients: the rows below the intercept
DropIntercept(x) ==
    IF ~x.valid THEN ArrMasked ELSE Arr(Tail(x.a))

\* the rows the reducer is given: the values of the images that are
\* unmasked in every band
RegressionRows(masked, modSorted, doys, numPixels, bandNames) ==
    LET lanMod == RegressionInputs(masked, modSorted, doys, numPixels,
                                   bandNames)
        AllValid(img) == \A i \in 1..Len(img) : ~IsMasked(img[i].v)
        valid  == SelectSeq(lanMod, AllValid)
    IN  [i \in 1..Len(valid) |-> Values(valid[i])]

\* the coefficient arrays calcConversionCoeff may return
calcConversionCoeff(masked, modSorted, doys, numPixels, bandNames) ==
    LET rows == RegressionRows(masked, modSorted, doys, numPixels, bandNames)
    IN  {DropIntercept(c) :
            c \in LinearRegression(rows, Len(bandNames) + 1, Len(bandNames))}

\* the inverse of the sum of the differences with its sign kept
SumDiffSigned(diff) == ArrayMap("inverse", ArrayReduceSum0(diff))

\* sumDiff_t0 and sumDiff_t1: 1 / |sum over the positions of the difference|
SumDiff(diff) == ArrayMap("inverse", ArrayMap("abs", ArrayReduceSum0(diff)))

\* the share of the other bracket date
TemporalWeightOther(sumDiff, sumDiff_t0, sumDiff_t1, bandNames) ==
    ProjectFlatten(ArrayOp("divide",
                           ArrayOp("subtract",
                                   ArrayOp("add", sumDiff_t0, sumDiff_t1),
                                   sumDiff),
                           ArrayOp("add", sumDiff_t0, sumDiff_t1)),
                   bandNames)

\* weight_t0 and weight_t1
TemporalWeight(sumDiff, sumDiff_t0, sumDiff_t1, bandNames) ==
    ProjectFlatten(ArrayOp("divide", sumDiff,
                           ArrayOp("add", sumDiff_t0, sumDiff_t1)),
                   bandNames)

\* the scaled sum of the differences without the weights
SumPixelUnweighted(diff, w, c, bandNames) ==
    ProjectFlatten(ArrayReduceSum0(MatrixMultiply(diff, c)), bandNames)

\* the scaled, weighted sum of the differences of one bracket date
SumPixel(diff, w, c, bandNames) ==
    ProjectFlatten(ArrayReduceSum0(MatrixMultiply(w, MatrixMultiply(diff, c))),
                   bandNames)

\* the locals of predictLandsat for one prediction date, and its result
predictLandsat(landsat, modSorted, doys, modSortedTp, w, c, bandNames, numPixels) ==
    LET modSplit   == [d \in 1..Len(doys) |->
                          [i \in 1..Len(modSorted) |->
                              Rename(SelectPrefix(modSorted[i], doys[d]),
                                     bandNames)]]
        diffMod    == [d \in 1..Len(doys) |->
                          CollectionToArray([index \in 1..numPixels |->
                              ImageOp("subtract", modSortedTp[index].bands,
                                      modSplit[d][index])])]
        sumPixel   == [d \in 1..Len(doys) |->
                          SumPixel(diffMod[d], w, c, bandNames)]
        sumDiff_t0 == SumDiff(diffMod[1])
        sumDiff_t1 == SumDiff(diffMod[2])
        weight_t0  == TemporalWeight(sumDiff_t0, sumDiff_t0, sumDiff_t1,
                                     bandNames)
        weight_t1  == TemporalWeight(sumDiff_t1, sumDiff_t0, sumDiff_t1,
                                     bandNames)
        temporalWeight == <<weight_t0, weight_t1>>
        predictions == [time \in 1..2 |->
                          ImageOp("multiply",
                                  ImageOp("add", landsat[time],
                                          sumPixel[time]),
                                  temporalWeight[time])]
        merged     == ImageOp("add", predictions[1], predictions[2])
    IN  [bands          |-> merged,
         props          |-> SetProp(SetProp(NoProps, "DOY",
                                GetProp(modSortedTp[1].props, "DOY")),
                                "system:time_start",
                                GetProp(modSortedTp[1].props,
                                        "system:time_start")),
         sumPixel       |-> sumPixel,
         temporalWeight |-> temporalWeight]

-----------------------------------------------------------------------------
(* The rasters the run is given.                                           *)

\* largest radius of the window
MaxRadius == 1

\* the values a raster takes around the pixel
Vals == {1, 2}

\* the standard deviations of a Landsat band over the two rasters
StdDevs == {<<R(1), R(1)>>, <<R(7), R(7)>>}

\* the days of year of t0, t1 and of the prediction date
DoySets == {<< <<"1", "5", "2">>, <<"1", "6", "8">>, <<"1", "6", "0">> >>}

\* the timestamps (days) of t0, t1 and of the prediction date
TimeSets == {<<152, 168, 160>>}

CenterIndex(r) == (NumPixelsOf(r) + 1) \div 2

\* the positions at which a raster may differ from its surroundings
SpecialPositions(r) == {1, CenterIndex(r)}

\* the sets of positions that may lie outside the rasters
OutsideSets(r) == IF r = 0 THEN {{}} ELSE {{}, {1}}

\* the values around the pixel: special at position sp, base elsewhere,
\* and no data outside the raster
Window(r, base, special, sp, outside) ==
    [k \in 1..NumPixelsOf(r) |->
        IF k \in outside THEN Masked
        ELSE IF k = sp THEN R(special) ELSE R(base)]

ImageProps(doy, time) == ("DOY" :> doy) @@ ("system:time_start" :> R(time))

\* commonBandNames = ee.List(['ndvi'])
Ndvi == << <<"n", "d", "v", "i">> >>

LandsatRaster(win, sd, doy, time) ==
    [names |-> Ndvi, win |-> <<win>>, sd |-> <<sd>>,
     props |-> ImageProps(doy, time)]

ModisRaster(win, doy, time) ==
    [names |-> Ndvi, win |-> <<win>>, props |-> ImageProps(doy, time)]

Unset == <<>>

\* the script's variables when only the body of the batch loop is followed
ScriptUnset ==
    /\ landsatCollection = Unset
    /\ modisCollection = Unset
    /\ paired = Unset
    /\ subs = Unset
    /\ listIndex = Unset
    /\ groupIndex = Unset

Init ==
    /\ pc = "prepLandsat"
    /\ commonBandNames = Ndvi
    /\ ScriptUnset
    /\ kernelRadius \in 0..MaxRadius
    /\ \E sp \in SpecialPositions(kernelRadius),
          out \in OutsideSets(kernelRadius),
          sd \in StdDevs, doy \in DoySets, t \in TimeSets,
          lb0 \in Vals, ls0 \in Vals, lb1 \in Vals, ls1 \in Vals,
          mb0 \in Vals, ms0 \in Vals, mb1 \in Vals,
          mbp \in Vals, msp \in Vals :
        \* the Landsat raster of t1 repeats that of t0 or is uniform, the
        \* MODIS raster of t1 is uniform, the position that stands out is
        \* the center with the narrow threshold only, and a window that
        \* reaches outside the rasters is followed with the wide one only;
        \* beyond radius 1 the MODIS rasters of t0 and of the prediction
        \* date are uniform
        /\ (lb1 = lb0 /\ ls1 = ls0) \/ lb1 = ls1
        /\ sp = 1 \/ sd = <<R(1), R(1)>>
        /\ out = {} \/ sd = <<R(7), R(7)>>
        /\ kernelRadius <= 1 \/ (mb0 = ms0 /\ mbp = msp)
        /\ landsat_t01 =
             <<LandsatRaster(Window(kernelRadius, lb0, ls0, sp, out),
                             sd[1], doy[1], t[1]),
               LandsatRaster(Window(kernelRadius, lb1, ls1, sp, out),
                             sd[2], doy[2], t[2])>>
        /\ modis_t01 =
             <<ModisRaster(Window(kernelRadius, mb0, ms0, sp, out),
                           doy[1], t[1]),
               ModisRaster(Window(kernelRadius, mb1, mb1, sp, out),
                           doy[2], t[2])>>
        /\ modis_tp =
             <<ModisRaster(Window(kernelRadius, mbp, msp, sp, out),
                           doy[3], t[3])>>
    /\ maskedLandsat = Unset
    /\ pixPositions = Unset
    /\ pixBN = Unset
    /\ modSorted_t01 = Unset
    /\ modSorted_tp = Unset
    /\ specDist = Unset
    /\ spatDist = Unset
    /\ weights = Unset
    /\ coeffs = Unset
    /\ prediction = Unset

-----------------------------------------------------------------------------
(* One pass of the body of the batch loop of Predict_L8.py.                *)

numPixels == NumPixelsOf(kernelRadius)

doys == DoysOf(landsat_t01)

\* landsat_t01 as predictLandsat reads it: the rasters at the pixel
LandsatAtPixel ==
    [i \in 1..Len(landsat_t01) |-> CenterImage(landsat_t01[i], kernelRadius)]

PrepLandsat ==
    /\ pc = "prepLandsat"
    /\ LET out == prepLandsat(landsat_t01, kernelRadius, numPixels,
                              commonBandNames, doys, coverClasses)
       IN  /\ maskedLandsat' = out.maskedLandsat
           /\ pixPositions' = out.pixPositions
           /\ pixBN' = out.pixelBandNames
    /\ pc' = "prepMODIS"
    /\ UNCHANGED scriptVars
    /\ UNCHANGED <<kernelRadius, landsat_t01, modis_t01, modis_tp,
                   modSorted_t01, modSorted_tp, specDist, spatDist, weights,
                   coeffs, prediction>>

PrepMODIS ==
    /\ pc = "prepMODIS"
    /\ LET out == prepMODIS(modis_t01, modis_tp, kernelRadius, numPixels,
                            commonBandNames, pixBN)
       IN  /\ modSorted_t01' = out.modSorted_t01
           /\ modSorted_tp' = out.modSorted_tp
    /\ pc' = "calcSpecDist"
    /\ UNCHANGED scriptVars
    /\ UNCHANGED <<kernelRadius, landsat_t01, modis_t01, modis_tp,
                   maskedLandsat, pixPositions, pixBN, specDist, spatDist,
                   weights, coeffs, prediction>>

CalcSpecDist ==
    /\ pc = "calcSpecDist"
    /\ specDist' = calcSpecDist(maskedLandsat, modSorted_t01, numPixels,
                                pixPositions)
    /\ pc' = "calcSpatDist"
    /\ UNCHANGED scriptVars
    /\ UNCHANGED <<kernelRadius, landsat_t01, modis_t01, modis_tp,
                   maskedLandsat, pixPositions, pixBN, modSorted_t01,
                   modSorted_tp, spatDist, weights, coeffs, prediction>>

CalcSpatDist ==
    /\ pc = "calcSpatDist"
    /\ spatDist' = calcSpatDist(pixPositions)
    /\ pc' = "calcWeight"
    /\ UNCHANGED scriptVars
    /\ UNCHANGED <<kernelRadius, landsat_t01, modis_t01, modis_tp,
                   maskedLandsat, pixPositions, pixBN, modSorted_t01,
                   modSorted_tp, specDist, weights, coeffs, prediction>>

CalcWeight ==
    /\ pc = "calcWeight"
    /\ weights' = calcWeight(spatDist, specDist)
    /\ pc' = "calcConversionCoeff"
    /\ UNCHANGED scriptVars
    /\ UNCHANGED <<kernelRadius, landsat_t01, modis_t01, modis_tp,
                   maskedLandsat, pixPositions, pixBN, modSorted_t01,
                   modSorted_tp, specDist, spatDist, coeffs, prediction>>

\* the request fails when a selection cannot be renamed
CalcConversionCoeff ==
    /\ pc = "calcConversionCoeff"
    /\ IF SelectionsRenamed(maskedLandsat, modSorted_t01, doys,
                            commonBandNames)
       THEN /\ coeffs' \in calcConversionCoeff(maskedLandsat, modSorted_t01,
                                                doys, numPixels,
                                                commonBandNames)
            /\ pc' = "predictLandsat"
       ELSE /\ coeffs' = coeffs
            /\ pc' = "failed"
    /\ UNCHANGED scriptVars
    /\ UNCHANGED <<kernelRadius, landsat_t01, modis_t01, modis_tp,
                   maskedLandsat, pixPositions, pixBN, modSorted_t01,
                   modSorted_tp, specDist, spatDist, weights, prediction>>

\* prediction = modSorted_tp.map(predictLandsat(...))
PredictLandsat ==
    /\ pc = "predictLandsat"
    /\ prediction' =
         [i \in 1..Len(modSorted_tp) |->
             predictLandsat(LandsatAtPixel, modSorted_t01, doys,
                            modSorted_tp[i], weights, coeffs,
                            commonBandNames, numPixels)]
    /\ pc' = "done"
    /\ UNCHANGED scriptVars
    /\ UNCHANGED <<kernelRadius, landsat_t01, modis_t01, modis_tp,
                   maskedLandsat, pixPositions, pixBN, modSorted_t01,
                   modSorted_tp, specDist, spatDist, weights, coeffs>>

Next ==
    \/ PrepLandsat
    \/ PrepMODIS
    \/ CalcSpecDist
    \/ CalcSpatDist
    \/ CalcWeight
    \/ CalcConversionCoeff
    \/ PredictLandsat

Spec == Init /\ [][Next]_vars

-----------------------------------------------------------------------------
(* The same pass over rasters in which Landsat is 2 * MODIS + 1.           *)

\* the sparse values that are 2 * dense + 1 wherever there is data
Linear(win) ==
    [k \in 1..Len(win) |->
        IF IsMasked(win[k]) THEN Masked
        ELSE NumAdd(NumMul(R(2), win[k]), One)]

InitLinear ==
    /\ pc = "prepLandsat"
    /\ commonBandNames = Ndvi
    /\ ScriptUnset
    /\ kernelRadius \in 1..MaxRadius
    /\ \E sp \in SpecialPositions(kernelRadius),
          out \in OutsideSets(kernelRadius),
          sd \in StdDevs, doy \in DoySets, t \in TimeSets,
          mb0 \in Vals, ms0 \in Vals, mb1 \in Vals, ms1 \in Vals,
          mbp \in Vals :
        /\ modis_t01 =
             <<ModisRaster(Window(kernelRadius, mb0, ms0, sp, out),
                           doy[1], t[1]),
               ModisRaster(Window(kernelRadius, mb1, ms1, sp, out),
                           doy[2], t[2])>>
        /\ landsat_t01 =
             <<LandsatRaster(Linear(modis_t01[1].win[1]), sd[1], doy[1], t[1]),
               LandsatRaster(Linear(modis_t01[2].win[1]), sd[2], doy[2], t[2])>>
        /\ modis_tp =
             <<ModisRaster(Window(kernelRadius, mbp, mbp, sp, out),
                           doy[3], t[3])>>
    /\ maskedLandsat = Unset
    /\ pixPositions = Unset
    /\ pixBN = Unset
    /\ modSorted_t01 = Unset
    /\ modSorted_tp = Unset
    /\ specDist = Unset
    /\ spatDist = Unset
    /\ weights = Unset
    /\ coeffs = Unset
    /\ prediction = Unset

SpecLinear == InitLinear /\ [][Next]_vars

-----------------------------------------------------------------------------
(* The same pass with two bands, as the core functions allow.              *)

\* commonBandNames of a fusion of two reflectance bands
RedNir == << <<"r", "e", "d">>, <<"n", "i", "r">> >>

\* the standard deviations of the two bands of one Landsat raster
BandStdDevs == {R(1), R(7)} \X {R(1), R(7)}

InitBands ==
    /\ pc = "prepLandsat"
    /\ commonBandNames = RedNir
    /\ ScriptUnset
    /\ kernelRadius = 1
    /\ \E sd0 \in BandStdDevs, sd1 \in BandStdDevs,
          doy \in DoySets, t \in TimeSets, ls \in Vals,
          rb \in Vals, rs \in Vals, ru \in Vals, ns \in Vals,
          out \in {{}, {NumPixelsOf(1)}} :
        \* Landsat stands out at the first position of the window in red,
        \* and in nir when ls = 2; MODIS is uniform at t1 and at tp, the
        \* last position may lie outside the rasters
        /\ out = {} \/ (rb = 1 /\ ru = 1)
        /\ landsat_t01 =
             <<[names |-> RedNir,
                win   |-> <<Window(1, 1, 2, 1, out), Window(1, 1, ls, 1, out)>>,
                sd    |-> sd0,
                props |-> ImageProps(doy[1], t[1])],
               [names |-> RedNir,
                win   |-> <<Window(1, 1, 2, 1, out), Window(1, 1, ls, 1, out)>>,
                sd    |-> sd1,
                props |-> ImageProps(doy[2], t[2])]>>
        /\ modis_t01 =
             <<[names |-> RedNir,
                win   |-> <<Window(1, rb, rs, 1, out), Window(1, 1, ns, 1, out)>>,
                props |-> ImageProps(doy[1], t[1])],
               [names |-> RedNir,
                win   |-> <<Window(1, ru, ru, 1, out), Window(1, 1, 1, 1, out)>>,
                props |-> ImageProps(doy[2], t[2])]>>
        /\ modis_tp =
             <<[names |-> RedNir,
                win   |-> <<Window(1, 1, 1, 1, out), Window(1, 2, 2, 1, out)>>,
                props |-> ImageProps(doy[3], t[3])]>>
    /\ maskedLandsat = Unset
    /\ pixPositions = Unset
    /\ pixBN = Unset
    /\ modSorted_t01 = Unset
    /\ modSorted_tp = Unset
    /\ specDist = Unset
    /\ spatDist = Unset
    /\ weights = Unset
    /\ coeffs = Unset
    /\ prediction = Unset

SpecBands == InitBands /\ [][Next]_vars

-----------------------------------------------------------------------------
(* get_paired_collections.py                                               *)

TimeOf(img) == GetProp(img.props, "system:time_start")

\* the day a time falls on: date().format('yyyy-MM-dd') read back as a date
DateOf(t) == t[1] \div t[2]

\* days in a year
YearLength == 365

\* date().format('D'): the day of the year, day 1 being the first of January
DayOfYear(t) == ((DateOf(t) - 1) % YearLength) + 1

\* select(commonBandNames): the named bands, in the order of the names
SelectBands(img, bandNames) ==
    LET at(j) == CHOOSE a \in 1..Len(img.names) : img.names[a] = bandNames[j]
        sel   == [img EXCEPT !.names = bandNames,
                              !.win = [j \in 1..Len(bandNames) |->
                                          img.win[at(j)]]]
    IN  IF "sd" \in DOMAIN img
        THEN [sel EXCEPT !.sd = [j \in 1..Len(bandNames) |-> img.sd[at(j)]]]
        ELSE sel

\* ee.Join.simple: the images of primary with a match in secondary
SimpleJoin(primary, secondary) ==
    LET Matched(img) ==
            \E a \in 1..Len(secondary) : TimeOf(secondary[a]) = TimeOf(img)
    IN  SelectSeq(primary, Matched)

\* every image of primary
InvertedJoinAll(primary, secondary) == primary

\* ee.Join.inverted: the images of primary without a match in secondary
InvertedJoin(primary, secondary) ==
    LET Unmatched(img) ==
            \A a \in 1..Len(secondary) : TimeOf(secondary[a]) # TimeOf(img)
    IN  SelectSeq(primary, Unmatched)

\* getPaired from the filtered collections on: Landsat is stamped with the
\* start of its day and its day of year, MODIS with its day of year
getPaired(landsatIn, modisIn, bandNames) ==
    LET landsat == [a \in 1..Len(landsatIn) |->
                       SelectBands(
                           [landsatIn[a] EXCEPT !.props =
                               SetProp(SetProp(@, "system:time_start",
                                           R(DateOf(TimeOf(landsatIn[a])))),
                                       "DOY",
                                       FormatNat(DayOfYear(
                                           TimeOf(landsatIn[a]))))],
                           bandNames)]
        modis   == [a \in 1..Len(modisIn) |->
                       SelectBands(
                           [modisIn[a] EXCEPT !.props =
                               SetProp(@, "DOY",
                                       FormatNat(DayOfYear(
                                           TimeOf(modisIn[a]))))],
                           bandNames)]
    IN  <<SimpleJoin(landsat, modis),
          SimpleJoin(modis, landsat),
          InvertedJoin(modis, landsat)>>

\* getDates over a collection: the day of each image
getDates(collection) ==
    [a \in 1..Len(collection) |-> DateOf(TimeOf(collection[a]))]

\* filterDate(start, end): start inclusive, end exclusive
FilterDate(collection, start, end) ==
    LET Within(img) ==
            NumLte(start, TimeOf(img)) /\ ~NumLte(end, TimeOf(img))
    IN  SelectSeq(collection, Within)

\* toList(count)
ToList(collection, count) ==
    SubSeq(collection, 1, IF Len(collection) < count THEN Len(collection)
                          ELSE count)

\* the images from date ind up to the end of the day of date ind + 1
FilterBetween(collection, dateList, ind) ==
    FilterDate(collection, R(dateList[ind + 1]), R(dateList[ind + 2] + 1))

getSub(pairedIn, dateList, ind) ==
    <<ToList(FilterBetween(pairedIn[1], dateList, ind), 2),
      ToList(FilterBetween(pairedIn[2], dateList, ind), 2),
      FilterBetween(pairedIn[3], dateList, ind)>>

\* ee.List.sequence(0, length - 2).map(getSub)
makeSubcollections(pairedIn) ==
    LET dateList == getDates(pairedIn[1])
    IN  [a \in 1..(IF Len(dateList) < 2 THEN 0 ELSE Len(dateList) - 1) |->
            getSub(pairedIn, dateList, a - 1)]

-----------------------------------------------------------------------------
(* Predict_L8.py from getPaired to the export of each group.               *)

\* subList: the prediction images of the subcollection at hand
subList == subs[listIndex + 1][3]

num_imgs == Len(subList)

remaining == num_imgs % 10

\* ee.List.sequence(0, num_imgs - remaining, 10)
index_seq ==
    [a \in 1..(((num_imgs - remaining) \div 10) + 1) |-> 10 * (a - 1)]

\* the end of a group that runs on to the last image
GroupEndLast(start, num) == num

\* end = If(start + 10 > num_imgs, num_imgs, start + 10)
GroupEnd(start, num) == IF start + 10 > num THEN num ELSE start + 10

\* the slice without its first element
SliceRest(list, start, end) == SubSeq(list, start + 2, end)

\* ee.List.slice(start, end)
Slice(list, start, end) == SubSeq(list, start + 1, end)

pred_group ==
    Slice(subList, index_seq[groupIndex + 1],
          GroupEnd(index_seq[groupIndex + 1], num_imgs))

\* last day of the collections
MaxDay == 24

\* the image of the MODIS collection of a day, around the pixel
ModisOfDay(day) ==
    [names |-> Ndvi,
     win   |-> <<Window(1, 1 + (day % 3), 1 + ((day + 1) % 3), 1, {})>>,
     props |-> ("system:time_start" :> R(day))]

\* a Landsat image acquired in the course of a day, around the pixel
LandsatOfDay(day, part) ==
    [names |-> Ndvi,
     win   |-> <<Window(1, 4 + (day % 2), 5 + (day % 2), 1, {})>>,
     sd    |-> <<R(7)>>,
     props |-> ("system:time_start" :> <<(4 * day) + part, 4>>)]

\* the days with a Landsat acquisition
LandsatDaySets == SUBSET {1, 2, 13, MaxDay}

\* the days without a MODIS image
ModisGaps == {{}, {3}, {13}}

\* the days in increasing order
RECURSIVE SortedDays(_)
SortedDays(days) ==
    IF days = {} THEN <<>>
    ELSE LET least == CHOOSE d \in days : \A e \in days : d <= e
         IN  <<least>> \o SortedDays(days \ {least})

\* the Landsat collection: one image a day, and a second one of the
\* neighbouring scene on the day twice
LandsatImages(days, twice) ==
    LET seq == SortedDays(days)
    IN  Flatten([a \in 1..Len(seq) |->
            IF seq[a] \in twice
            THEN <<LandsatOfDay(seq[a], 1), LandsatOfDay(seq[a], 3)>>
            ELSE <<LandsatOfDay(seq[a], 1)>>])

ModisImages(days) ==
    LET seq == SortedDays(days)
    IN  [a \in 1..Len(seq) |-> ModisOfDay(seq[a])]

InitScript ==
    /\ pc = "getPaired"
    /\ commonBandNames = Ndvi
    /\ kernelRadius = 1
    /\ \E days \in LandsatDaySets, gap \in ModisGaps,
          twice \in {{}, {1}, {MaxDay}} :
        /\ twice \subseteq days
        /\ landsatCollection = LandsatImages(days, twice)
        /\ modisCollection = ModisImages((1..MaxDay) \ gap)
    /\ paired = Unset
    /\ subs = Unset
    /\ listIndex = Unset
    /\ groupIndex = Unset
    /\ landsat_t01 = Unset
    /\ modis_t01 = Unset
    /\ modis_tp = Unset
    /\ maskedLandsat = Unset
    /\ pixPositions = Unset
    /\ pixBN = Unset
    /\ modSorted_t01 = Unset
    /\ modSorted_tp = Unset
    /\ specDist = Unset
    /\ spatDist = Unset
    /\ weights = Unset
    /\ coeffs = Unset
    /\ prediction = Unset

\* what the script leaves alone outside the body of the batch loop
bodyVars == <<maskedLandsat, pixPositions, pixBN, modSorted_t01, modSorted_tp,
              specDist, spatDist, weights, coeffs, prediction>>

GetPaired ==
    /\ pc = "getPaired"
    /\ paired' = getPaired(landsatCollection, modisCollection, commonBandNames)
    /\ pc' = "makeSubcollections"
    /\ UNCHANGED <<commonBandNames, landsatCollection, modisCollection, subs,
                   listIndex, groupIndex, kernelRadius, landsat_t01,
                   modis_t01, modis_tp>>
    /\ UNCHANGED bodyVars

MakeSubcollections ==
    /\ pc = "makeSubcollections"
    /\ subs' = makeSubcollections(paired)
    /\ listIndex' = 0
    /\ pc' = "forList"
    /\ UNCHANGED <<commonBandNames, landsatCollection, modisCollection,
                   paired, groupIndex, kernelRadius, landsat_t01, modis_t01,
                   modis_tp>>
    /\ UNCHANGED bodyVars

\* for i in range(0, num_lists)
ForList ==
    /\ pc = "forList"
    /\ IF listIndex < Len(subs)
       THEN groupIndex' = 0 /\ pc' = "forGroup"
       ELSE groupIndex' = groupIndex /\ pc' = "end"
    /\ UNCHANGED <<commonBandNames, landsatCollection, modisCollection,
                   paired, subs, listIndex, kernelRadius, landsat_t01,
                   modis_t01, modis_tp>>
    /\ UNCHANGED bodyVars

\* for x in range(0, index_seq.length()): the group and its bracket; the
\* label of the export is read from the first image of the group, so with
\* an empty group the script stops on the error of that request
ForGroup ==
    /\ pc = "forGroup"
    /\ IF groupIndex < Len(index_seq)
       THEN /\ landsat_t01' = subs[listIndex + 1][1]
            /\ modis_t01' = subs[listIndex + 1][2]
            /\ modis_tp' = pred_group
            /\ pc' = IF pred_group = <<>> THEN "failed" ELSE "prepLandsat"
            /\ listIndex' = listIndex
       ELSE /\ listIndex' = listIndex + 1
            /\ pc' = "forList"
            /\ UNCHANGED <<landsat_t01, modis_t01, modis_tp>>
    /\ UNCHANGED <<commonBandNames, landsatCollection, modisCollection,
                   paired, subs, groupIndex, kernelRadius>>
    /\ UNCHANGED bodyVars

\* the export task of the group is started and the loop goes on
Export ==
    /\ pc = "done"
    /\ groupIndex' = groupIndex + 1
    /\ pc' = "forGroup"
    /\ UNCHANGED <<commonBandNames, landsatCollection, modisCollection,
                   paired, subs, listIndex, kernelRadius, landsat_t01,
                   modis_t01, modis_tp>>
    /\ UNCHANGED bodyVars

NextScript ==
    \/ GetPaired
    \/ MakeSubcollections
    \/ ForList
    \/ ForGroup
    \/ PrepLandsat
    \/ PrepMODIS
    \/ CalcSpecDist
    \/ CalcSpatDist
    \/ CalcWeight
    \/ CalcConversionCoeff
    \/ PredictLandsat
    \/ Export

SpecScript == InitScript /\ [][NextScript]_vars

-----------------------------------------------------------------------------
(* The same pass over bracket pairs within a year and across years.        *)

\* the days of t0, t1 and of the prediction date, counted from the first
\* of January of the first year: within a year, over the turn of the year,
\* and a year apart
YearTimes == {<<1, 11, 5>>, <<152, 168, 160>>, <<360, 366, 363>>,
              <<152, 152 + YearLength, 300>>}

\* 'DOY' as getPaired sets it, and the time of the image
DatedProps(time) == ImageProps(FormatNat(DayOfYear(R(time))), time)

InitYears ==
    /\ pc = "prepLandsat"
    /\ commonBandNames = Ndvi
    /\ ScriptUnset
    /\ kernelRadius = 1
    /\ \E t \in YearTimes, lb0 \in Vals, ls0 \in Vals, lb1 \in Vals,
          mb0 \in Vals, ms0 \in Vals, mbp \in Vals :
        /\ landsat_t01 =
             <<[names |-> Ndvi, win |-> <<Window(1, lb0, ls0, 1, {})>>,
                sd |-> <<R(7)>>, props |-> DatedProps(t[1])],
               [names |-> Ndvi, win |-> <<Window(1, lb1, lb1, 1, {})>>,
                sd |-> <<R(7)>>, props |-> DatedProps(t[2])]>>
        /\ modis_t01 =
             <<[names |-> Ndvi, win |-> <<Window(1, mb0, ms0, 1, {})>>,
                props |-> DatedProps(t[1])],
               [names |-> Ndvi, win |-> <<Window(1, 1, 1, 1, {})>>,
                props |-> DatedProps(t[2])]>>
        /\ modis_tp =
             <<[names |-> Ndvi, win |-> <<Window(1, mbp, mbp, 1, {})>>,
                props |-> DatedProps(t[3])]>>
    /\ maskedLandsat = Unset
    /\ pixPositions = Unset
    /\ pixBN = Unset
    /\ modSorted_t01 = Unset
    /\ modSorted_tp = Unset
    /\ specDist = Unset
    /\ spatDist = Unset
    /\ weights = Unset
    /\ coeffs = Unset
    /\ prediction = Unset

SpecYears == InitYears /\ [][Next]_vars

-----------------------------------------------------------------------------
(* What the claims are stated over.                                        *)

Done == pc = "done"

Valid(v) == ~IsMasked(v)

\* the rasters as given, at date d and window position k
Sparse(d, k) == landsat_t01[d].win[1][k]

Dense(d, k) == modis_t01[d].win[1][k]

DenseTp(k) == modis_tp[1].win[1][k]

Positions == 1..NumPixelsOf(kernelRadius)

Center == CenterIndex(kernelRadius)

\* every raster has data at every position of the window
WindowFull ==
    \A k \in Positions :
        /\ Valid(DenseTp(k))
        /\ \A d \in 1..2 : Valid(Sparse(d, k)) /\ Valid(Dense(d, k))

\* the sum over the window of dense(tp) - dense(d)
DeltaSum(d) ==
    SumValid([k \in Positions |-> NumSub(DenseTp(k), Dense(d, k))])

\* the weight on the diagonal of the weight matrix at position k
WeightAt(k) == weights.a[k][k]

WeightTotal == SumValid([k \in Positions |-> WeightAt(k)])

WeightsBuilt == weights # Unset

\* the blended increment of bracket date d written out: the sum over the
\* window of weight * slope * (dense(tp) - dense(d))
Increment(d) ==
    SumValid([k \in Positions |->
        NumMul(NumMul(WeightAt(k), coeffs.a[1][1]),
               NumSub(DenseTp(k), Dense(d, k)))])

Predicted == prediction[1].bands[1].v

TempWeight(d) == prediction[1].temporalWeight[d][1].v

SumPixelOf(d) == prediction[1].sumPixel[d][1].v

\* sqrt(x) to the kept precision, as the number q with
\* q^2 <= x < (q + 1/SqrtScale)^2
IsSqrtOf(q, x) ==
    /\ NumLte(Zero, q)
    /\ NumLte(NumMul(q, q), x)
    /\ ~NumLte(NumMul(NumAdd(q, <<1, SqrtScale>>),
                      NumAdd(q, <<1, SqrtScale>>)), x)

OffsetNormSq(k) ==
    R(KernelOffsets(kernelRadius)[k][1] * KernelOffsets(kernelRadius)[k][1]
      + KernelOffsets(kernelRadius)[k][2] * KernelOffsets(kernelRadius)[k][2])

-----------------------------------------------------------------------------
(* The claims.                                                             *)

\* C1 (as claimed): once the weights are built, if some position of the
\* window has a finite combined distance, the weights on the diagonal sum
\* to 1.
C1_WeightsSumToOne ==
    (WeightsBuilt /\ kernelRadius >= 1
        /\ \E k \in Positions : Valid(specDist[k].v))
        => WeightTotal = One

UniformBrackets ==
    /\ kernelRadius = 1
    /\ WindowFull
    /\ \A k \in Positions :
          /\ Sparse(1, k) = Sparse(1, Center) /\ Sparse(2, k) = Sparse(1, k)
          /\ Dense(1, k) = Dense(1, Center) /\ Dense(2, k) = Dense(1, k)
          /\ DenseTp(k) = Dense(1, k)

\* C3 (as claimed): for uniform rasters and identical brackets the
\* prediction equals the bracket value and the temporal weights are 1/2.
C3_UniformPredictsBracket ==
    (Done /\ UniformBrackets) =>
        /\ Predicted = Sparse(1, Center)
        /\ TempWeight(1) = <<1, 2>>
        /\ TempWeight(2) = <<1, 2>>

\* C4 (as claimed): a bracket whose dense delta sums to zero is given the
\* most confidence: both temporal weights and the prediction are numbers,
\* and the weight of that bracket is not below the weight of the other.
C4_ZeroDeltaMaximalConfidence ==
    (Done /\ WindowFull /\ coeffs.valid) =>
        \A d \in 1..2 :
            DeltaSum(d) = Zero =>
                /\ Valid(TempWeight(1)) /\ Valid(TempWeight(2))
                /\ Valid(Predicted)
                /\ NumLte(TempWeight(3 - d), TempWeight(d))
                /\ NumAdd(TempWeight(1), TempWeight(2)) = One

\* C5 (as claimed): when the combined distance is zero at some position,
\* every weight is a number and the weights still sum to 1.
C5_ZeroDistanceCapped ==
    (WeightsBuilt /\ kernelRadius >= 1
        /\ \E k \in Positions : specDist[k].v = Zero) =>
        /\ weights.valid
        /\ WeightTotal = One

\* C6: where both dense deltas sum to something other than zero, the
\* temporal weight of bracket b is (1 / |s_b|) / (1 / |s_0| + 1 / |s_1|),
\* the two weights sum to 1, and the prediction is
\* weight_t0 * (sparse_t0 + increment_t0) + weight_t1 * (sparse_t1 + increment_t1).
C6_TemporalBlend ==
    (Done /\ WindowFull /\ DeltaSum(1) # Zero /\ DeltaSum(2) # Zero) =>
        LET inv0 == NumDivide(One, NumAbs(DeltaSum(1)))
            inv1 == NumDivide(One, NumAbs(DeltaSum(2)))
        IN  /\ TempWeight(1) = NumDivide(inv0, NumAdd(inv0, inv1))
            /\ TempWeight(2) = NumDivide(inv1, NumAdd(inv0, inv1))
            /\ NumAdd(TempWeight(1), TempWeight(2)) = One
            /\ Predicted =
                 Px2("add",
                     Px2("multiply", TempWeight(1),
                         Px2("add", Sparse(1, Center), SumPixelOf(1))),
                     Px2("multiply", TempWeight(2),
                         Px2("add", Sparse(2, Center), SumPixelOf(2))))

C6_Witness ==
    /\ Done /\ WindowFull /\ Valid(Predicted)
    /\ DeltaSum(1) # Zero /\ DeltaSum(2) # Zero
    /\ NumAbs(DeltaSum(1)) # NumAbs(DeltaSum(2))
    /\ NumLte(Zero, DeltaSum(1)) /\ ~NumLte(Zero, DeltaSum(2))
    /\ Sparse(1, Center) # Sparse(2, Center)
    /\ SumPixelOf(1) # Zero

OneUnmasked(k) ==
    /\ \A d \in 1..2 : Valid(maskedLandsat[k][d].v)
    /\ \A j \in Positions \ {k} :
          \A d \in 1..2 : IsMasked(maskedLandsat[j][d].v)

\* C8 (as claimed): with exactly one unmasked position the weight matrix is
\* 1 at that position and 0 elsewhere, and there is an increment, which is
\* the slope times the dense delta of that position alone.
C8_SingleNeighbour ==
    (Done /\ WindowFull /\ kernelRadius >= 1) =>
        \A k \in Positions :
            OneUnmasked(k) =>
                /\ \A i, j \in Positions :
                      weights.a[i][j] = IF i = k /\ j = k THEN One ELSE Zero
                /\ coeffs.valid
                /\ \A d \in 1..2 :
                      SumPixelOf(d) =
                          NumMul(coeffs.a[1][1],
                                 NumSub(DenseTp(k), Dense(d, k)))

\* C9 (as claimed): where the window reaches outside the rasters, the
\* stacks hold no data at exactly the missing positions, and the pixel
\* still gets a prediction.
C9_EdgePixelPredicted ==
    (Done /\ ~WindowFull /\ Valid(Sparse(1, Center))) =>
        /\ \A k \in Positions :
              /\ IsMasked(modSorted_t01[k][1].v) <=> IsMasked(Dense(1, k))
              /\ IsMasked(modSorted_tp[1][k].bands[1].v)
                     <=> IsMasked(DenseTp(k))
        /\ Valid(Predicted)

\* C10 (as claimed): with a window radius r <= 0 no step of the
\* computation is taken.
C10_InvalidRadiusRejected ==
    kernelRadius <= 0 => pc = "prepLandsat"

\* the training rows of the regression: the dates and positions at which
\* every band of both sensors is unmasked in the stacks
RowValid(d, k) ==
    \A j \in 1..Len(commonBandNames) :
        /\ Valid(maskedLandsat[k][(d - 1) * Len(commonBandNames) + j].v)
        /\ Valid(modSorted_t01[k][(d - 1) * Len(commonBandNames) + j].v)

TrainingRows == {dk \in (1..2) \X Positions : RowValid(dk[1], dk[2])}

\* C11: when a window has fewer unmasked training rows than regression
\* parameters (2 per band), calcConversionCoeff returns no coefficients and
\* the prediction at that window is no-data in every band.
C11_TooFewRowsNoFit ==
    (Done /\ Cardinality(TrainingRows) < 2 * Len(commonBandNames)) =>
        /\ ~coeffs.valid
        /\ \A j \in 1..Len(commonBandNames) :
              /\ IsMasked(prediction[1].bands[j].v)
              /\ \A d \in 1..2 : IsMasked(prediction[1].sumPixel[d][j].v)

C11_Witness ==
    /\ Done
    /\ Cardinality(TrainingRows) < 2 * Len(commonBandNames)
    /\ Valid(Sparse(1, Center)) /\ Valid(DenseTp(Center))
    /\ ~coeffs.valid

\* C16: every predicted image carries the 'DOY' and 'system:time_start' of the
\* modis_tp image it was predicted for, both defined and equal to the target's.
C16_PredictionCarriesTargetDate ==
    Done =>
        \A key \in {"DOY", "system:time_start"} :
            /\ GetProp(prediction[1].props, key) # Null
            /\ GetProp(prediction[1].props, key) = GetProp(modis_tp[1].props, key)

\* the rows given to the regression in this pass
Rows ==
    RegressionRows(maskedLandsat, modSorted_t01, doys, numPixels,
                   commonBandNames)

CoeffsBuilt == pc \in {"predictLandsat", "done"}

\* 1 band, sparse = 2 * dense + 1 on every row, two distinct dense values
LinearRows ==
    /\ Len(commonBandNames) = 1
    /\ LET rows == Force(Rows)
       IN  /\ \A a \in 1..Len(rows) :
                 rows[a][3] = NumAdd(NumMul(R(2), rows[a][2]), One)
           /\ \E a \in 1..Len(rows), b \in 1..Len(rows) :
                 rows[a][2] # rows[b][2]

LinearRecovered ==
    /\ coeffs = Arr(<< <<R(2)>> >>)
    /\ LinearRegression(Force(Rows), 2, 1) = {Arr(<< <<One>>, <<R(2)>> >>)}

NumBands == Len(commonBandNames)

\* the rows of the regression of band j on its own: 1, dense j, sparse j
OwnRows(j) ==
    [a \in 1..Len(Rows) |->
        <<Rows[a][1], Rows[a][1 + j], Rows[a][1 + NumBands + j]>>]

\* the slope of the least squares line of sparse j over dense j
OwnSlope(j) == LeastSquares(OwnRows(j), 2, 1).a[2][1]

\* C13: with two or more bands each output band is fit on its own, as
\* sparse = intercept + slope * dense of the same band: the coefficient of
\* band j is the slope of that line and takes nothing from the dense values
\* of the other bands.
C13_BandsFitIndependently ==
    (/\ CoeffsBuilt
     /\ NumBands >= 2
     /\ coeffs.valid
     /\ Det(NormalMatrix(Rows, NumBands + 1)) # Zero
     /\ \A j \in 1..NumBands : Det(NormalMatrix(OwnRows(j), 2)) # Zero)
    => \A b \in 1..NumBands, j \in 1..NumBands :
          coeffs.a[b][j] = IF b = j THEN OwnSlope(j) ELSE Zero

\* the Landsat value of band j at date d and position k as given
RawSparse(d, j, k) == landsat_t01[d].win[j][k]

\* 2 * stddev / C for band j of the Landsat raster of date d
SimilarityThreshold(d, j) ==
    NumDivide(NumMul(R(2), landsat_t01[d].sd[j]), R(coverClasses))

\* |center - neighbor| <= threshold, where both have data
Similar(d, j, k) ==
    /\ Valid(RawSparse(d, j, Center)) /\ Valid(RawSparse(d, j, k))
    /\ NumLte(NumAbs(NumSub(RawSparse(d, j, Center), RawSparse(d, j, k))),
              SimilarityThreshold(d, j))

\* the band of date d and band j in the stack of position k
StackIndex(d, j) == (d - 1) * NumBands + j

LandsatPrepared == pc # "prepLandsat"

\* the masks threshMask gives for the Landsat rasters of this pass
Masks ==
    threshMask([i \in 1..2 |-> NeighborhoodToBands(landsat_t01[i], kernelRadius)],
               threshold(landsat_t01, coverClasses), commonBandNames)

\* every Landsat value of the window, at both dates and in all bands
SparseFull ==
    \A d \in 1..2, j \in 1..NumBands, k \in Positions :
        Valid(RawSparse(d, j, k))

\* C15: for each bracket date and band the threshold is 2 * stddev / C of
\* that band of that date's raster, and the mask at a neighbor is true
\* exactly when |center - neighbor| <= that threshold; in a window with
\* data everywhere the neighbors kept are exactly those.
C15_MaskByOwnThreshold ==
    LandsatPrepared =>
        LET mask == Force(Masks)
            full == SparseFull
        IN  \A d \in 1..2, j \in 1..NumBands, k \in Positions :
            /\ (Valid(RawSparse(d, j, Center)) /\ Valid(RawSparse(d, j, k)))
                  => mask[d][j][k].v = IF Similar(d, j, k) THEN One ELSE Zero
            /\ full =>
                  maskedLandsat[k][StackIndex(d, j)].v =
                      IF Similar(d, j, k) THEN RawSparse(d, j, k) ELSE Masked

C15_Witness ==
    /\ LandsatPrepared
    /\ NumBands = 2
    /\ \E k \in Positions :
          /\ Valid(maskedLandsat[k][StackIndex(1, 1)].v)
          /\ IsMasked(maskedLandsat[k][StackIndex(2, 1)].v)
          /\ IsMasked(maskedLandsat[k][StackIndex(1, 2)].v)
          /\ Valid(maskedLandsat[k][StackIndex(2, 2)].v)

\* |sparse - dense| of band j at date d and position k in the stacks, where
\* both are unmasked
AbsDifference(d, j, k) ==
    LET sparse == maskedLandsat[k][StackIndex(d, j)].v
        dense  == modSorted_t01[k][StackIndex(d, j)].v
    IN  IF Valid(sparse) /\ Valid(dense)
        THEN NumAbs(NumSub(sparse, dense)) ELSE Masked

MeanOfValid(vals) ==
    IF \A a \in 1..Len(vals) : IsMasked(vals[a]) THEN Masked
    ELSE NumDivide(SumValid(vals),
                   R(Cardinality({a \in 1..Len(vals) : Valid(vals[a])})))

\* the mean over the bands at one date
DateDistance(d, k) ==
    MeanOfValid([j \in 1..NumBands |-> AbsDifference(d, j, k)])

\* the mean of the two per-date means
MeanOfDateDistances(k) ==
    MeanOfValid([d \in 1..2 |-> DateDistance(d, k)])

\* the mean over all unmasked band and date entries at once
PooledDistance(k) ==
    MeanOfValid([e \in 1..(2 * NumBands) |->
        AbsDifference(((e - 1) \div NumBands) + 1, ((e - 1) % NumBands) + 1, k)])

SpecDistBuilt == pc \notin {"prepLandsat", "prepMODIS", "calcSpecDist"}

\* C14 as stated: the spectral distance at offset k is the mean over the
\* bands of |sparse - dense| taken for each bracket date, and then the mean
\* of the two per-date values, whatever bands are masked at either date.
C14_ClaimedSpectralDistance ==
    SpecDistBuilt =>
        \A k \in Positions : specDist[k].v = MeanOfDateDistances(k)

\* C14: the spectral distance at offset k is the mean of |sparse - dense|
\* over all the unmasked band and date entries of the offset taken together
\* (the mean of the per-date means when both dates keep the same number of
\* bands).
C14_PooledSpectralDistance ==
    SpecDistBuilt =>
        \A k \in Positions :
            /\ specDist[k].v = PooledDistance(k)
            /\ (CountValid([j \in 1..NumBands |-> AbsDifference(1, j, k)])
                  = CountValid([j \in 1..NumBands |-> AbsDifference(2, j, k)]))
                 => specDist[k].v = MeanOfDateDistances(k)

C14_Witness ==
    /\ SpecDistBuilt
    /\ \E k \in Positions :
          /\ Valid(AbsDifference(1, 1, k)) /\ Valid(AbsDifference(1, 2, k))
          /\ Valid(AbsDifference(2, 1, k)) /\ IsMasked(AbsDifference(2, 2, k))
          /\ PooledDistance(k) # MeanOfDateDistances(k)
          /\ specDist[k].v = PooledDistance(k)
          /\ \E a \in Positions :
                NumLte(maskedLandsat[a][1].v, modSorted_t01[a][1].v)
                /\ maskedLandsat[a][1].v # modSorted_t01[a][1].v

\* the script is in the body of the batch loop, or has just left it
InBody ==
    pc \in {"prepLandsat", "prepMODIS", "calcSpecDist", "calcSpatDist",
            "calcWeight", "calcConversionCoeff", "predictLandsat", "done",
            "failed"}

\* C17: the weights and the coefficients come from the bracket pair only:
\* in every group after the first of a pair, calcWeight and
\* calcConversionCoeff give again what the group before was predicted with.
C17_SameFitAcrossGroups ==
    [][/\ (pc = "calcWeight" /\ groupIndex > 0) => weights' = weights
       /\ (pc = "calcConversionCoeff" /\ groupIndex > 0) => coeffs' = coeffs]_vars

C17_Witness ==
    /\ Done
    /\ groupIndex >= 1
    /\ Len(modis_tp) >= 1
    /\ modis_tp[1] # subList[1]
    /\ coeffs.valid /\ coeffs.a[1][1] # Zero
    /\ WeightTotal = One
    /\ \A a \in 1..Len(prediction) : Valid(prediction[a].bands[1].v)

SubsBuilt == pc \notin {"getPaired", "makeSubcollections"}

\* the paired dates, earliest first
PairedDates ==
    SortedDays({DateOf(TimeOf(paired[1][a])) : a \in 1..Len(paired[1])})

DatesOf(collection) == getDates(collection)

\* the unpaired MODIS images dated between two days, in their order
UnpairedBetween(first, last) ==
    LET Between(img) ==
            first < DateOf(TimeOf(img)) /\ DateOf(TimeOf(img)) < last
    IN  SelectSeq(paired[3], Between)

GroupAt(g) ==
    Slice(subList, index_seq[g + 1], GroupEnd(index_seq[g + 1], num_imgs))

C20_GroupsOfTen ==
    InBody =>
        /\ Len(modis_tp) <= 10
        /\ groupIndex + 1 < Len(index_seq) => Len(modis_tp) = 10
        /\ \A g \in 0..(Len(index_seq) - 1) :
              /\ Len(GroupAt(g)) <= 10
              /\ g + 1 < Len(index_seq) => Len(GroupAt(g)) = 10

C20_Witness ==
    /\ Done
    /\ groupIndex = 2
    /\ Len(modis_tp) \in 1..9
    /\ Len(GroupAt(0)) = 10 /\ Len(GroupAt(1)) = 10
    /\ Len(prediction) = Len(modis_tp)

\* every position of the dense rasters of t0, t1 and the prediction date
\* holds a value, so the sums of the dense changes are defined
DenseFull ==
    \A k \in Positions :
        /\ Valid(DenseTp(k))
        /\ \A d \in 1..2 : Valid(Dense(d, k))

\* a is strictly below b
NumLt(a, b) == Valid(a) /\ Valid(b) /\ ~NumLte(b, a)

\* C21: for non-zero sums s0, s1 of the dense change to the prediction
\* date, the bracket with the smaller |s| has the larger temporal weight,
\* and |s0| = |s1| gives both brackets the weight 1/2.
C21_SmallerChangeWeighsMore ==
    (Done /\ DenseFull /\ DeltaSum(1) # Zero /\ DeltaSum(2) # Zero) =>
        LET a0 == NumAbs(DeltaSum(1))
            a1 == NumAbs(DeltaSum(2))
        IN  /\ NumLt(a0, a1) => NumLt(TempWeight(2), TempWeight(1))
            /\ NumLt(a1, a0) => NumLt(TempWeight(1), TempWeight(2))
            /\ a0 = a1 => (TempWeight(1) = <<1, 2>> /\ TempWeight(2) = <<1, 2>>)

C21_Witness ==
    /\ Done /\ DenseFull
    /\ DeltaSum(1) # Zero /\ DeltaSum(2) # Zero
    /\ NumLt(NumAbs(DeltaSum(1)), NumAbs(DeltaSum(2)))
    /\ NumLt(TempWeight(2), TempWeight(1))
    /\ TempWeight(1) # One


\* the loops are at a bracket pair
AtPair == pc = "forGroup" \/ InBody

\* the groups of the pair at hand, one after the other
AllGroups == Flatten([a \in 1..Len(index_seq) |-> GroupAt(a - 1)])

\* the prediction dates the images of a list carry
DoyList(images) == [a \in 1..Len(images) |-> GetProp(images[a].props, "DOY")]

\* C22: for any number of targets of a bracket pair the groups of the loop,
\* one after the other, are the target list; the groups are taken in order,
\* the pair is left after its last group only, and each image of a group is
\* predicted once, so every target is predicted exactly once.
C22_GroupsPartitionTargets ==
    /\ [](AtPair => AllGroups = subList)
    /\ [][/\ (pc = "forList" /\ pc' = "forGroup") => groupIndex' = 0
          /\ (pc = "forGroup" /\ pc' = "prepLandsat") =>
                 modis_tp' = GroupAt(groupIndex)
          /\ (InBody /\ pc # "done") =>
                 /\ modis_tp' = modis_tp
                 /\ groupIndex' = groupIndex /\ listIndex' = listIndex
          /\ (pc = "predictLandsat") =>
                 /\ Len(prediction') = Len(modis_tp)
                 /\ DoyList(prediction') = DoyList(modis_tp)
          /\ (pc = "done") =>
                 /\ groupIndex' = groupIndex + 1 /\ listIndex' = listIndex
                 /\ pc' = "forGroup"
          /\ (pc = "forGroup" /\ pc' = "forList") =>
                 groupIndex = Len(index_seq)
          /\ (pc' = "failed") =>
                 /\ GroupAt(groupIndex) = <<>>
                 /\ groupIndex + 1 = Len(index_seq)]_vars

C22_Witness ==
    /\ Done
    /\ groupIndex = 2
    /\ num_imgs > 20
    /\ AllGroups = subList
    /\ modis_tp = SubSeq(subList, 21, num_imgs)
    /\ DoyList(prediction) = DoyList(modis_tp)
    /\ \A a \in 1..num_imgs, b \in 1..num_imgs :
          a # b => subList[a] # subList[b]


\* C23 (as claimed): for any number of targets of a bracket pair, 0 and the
\* multiples of 10 included, every group the loop forms holds at least one
\* image, so the label and the region of its export are defined and the
\* script does not stop on them.
C23_EveryGroupHoldsAnImage ==
    /\ AtPair => \A g \in 0..(Len(index_seq) - 1) : GroupAt(g) # <<>>
    /\ InBody => modis_tp # <<>>
    /\ pc # "failed"


\* the MODIS value of band j at bracket date d and position k as given
RawDense(d, j, k) == modis_t01[d].win[j][k]

\* every MODIS value of the window at both bracket dates
DenseBracketsFull ==
    \A d \in 1..2, j \in 1..NumBands, k \in Positions :
        Valid(RawDense(d, j, k))

\* the name of position k: '_x_y' of the k-th offset of the kernel
PositionName(k) ==
    Underscore \o FormatInt(KernelOffsets(kernelRadius)[k][1])
        \o Underscore \o FormatInt(KernelOffsets(kernelRadius)[k][2])

\* the name of the band of date d and band j in the stack of position k
StackBandName(d, j, k) ==
    doys[d] \o Underscore \o commonBandNames[j] \o PositionName(k)

StacksBuilt == pc \notin {"prepLandsat", "prepMODIS"}

\* C24: in element k of the stacks of prepLandsat and prepMODIS the band
\* named doy_band_position of date d, band j and position k is there once;
\* wherever it has a value, the value is that of band j on date d at
\* position k, kept by the similarity mask of the same date, band and
\* position; and in windows with data everywhere it is exactly that value
\* (masked where the neighbour is not similar).
C24_StacksAligned ==
    StacksBuilt =>
        LET sparseFull == SparseFull
            denseFull  == DenseBracketsFull
        IN  \A k \in Positions :
            /\ \A d \in 1..2, j \in 1..NumBands :
                  LET lan == SelectName(maskedLandsat[k], StackBandName(d, j, k))
                      mod == SelectName(modSorted_t01[k], StackBandName(d, j, k))
                  IN  /\ Len(lan) = 1 /\ Len(mod) = 1
                      /\ Valid(lan[1].v) =>
                            lan[1].v = RawSparse(d, j, k) /\ Similar(d, j, k)
                      /\ sparseFull =>
                            lan[1].v = IF Similar(d, j, k)
                                       THEN RawSparse(d, j, k) ELSE Masked
                      /\ Valid(mod[1].v) => mod[1].v = RawDense(d, j, k)
                      /\ denseFull => mod[1].v = RawDense(d, j, k)
            /\ \A i \in 1..Len(modis_tp), j \in 1..NumBands :
                  LET tp == SelectName(modSorted_tp[i][k].bands,
                                       commonBandNames[j])
                  IN  /\ Len(tp) = 1
                      /\ Valid(tp[1].v) => tp[1].v = modis_tp[i].win[j][k]
                      /\ (\A b \in 1..NumBands, q \in Positions :
                              Valid(modis_tp[i].win[b][q]))
                            => tp[1].v = modis_tp[i].win[j][k]

C24_Witness ==
    /\ StacksBuilt
    /\ NumBands = 2
    /\ SparseFull /\ DenseBracketsFull
    /\ \E k \in Positions, q \in Positions :
          LET lanK == SelectName(maskedLandsat[k], StackBandName(1, 1, k))[1].v
              lanQ == SelectName(maskedLandsat[q], StackBandName(1, 1, q))[1].v
              nirK == SelectName(maskedLandsat[k], StackBandName(1, 2, k))[1].v
              lan1 == SelectName(maskedLandsat[k], StackBandName(2, 1, k))[1].v
              mod0 == SelectName(modSorted_t01[k], StackBandName(1, 1, k))[1].v
              mod1 == SelectName(modSorted_t01[k], StackBandName(2, 1, k))[1].v
              modN == SelectName(modSorted_t01[k], StackBandName(1, 2, k))[1].v
          IN  /\ Valid(lanK) /\ Valid(lanQ) /\ lanK # lanQ
              /\ Valid(nirK) /\ nirK # lanK
              /\ IsMasked(lan1)
              /\ mod0 # mod1 /\ mod0 # modN


\* the bands of date d in a stack of one position
BandsOfDate(img, d) == SubSeq(img, (d - 1) * NumBands + 1, d * NumBands)

\* C25 (as claimed): for every bracket pair, pairs across years included,
\* the selection by the day-of-year prefix takes from each stack exactly
\* the B bands of that date and none of the other date's, so the rename to
\* the B common band names is defined.
C25_PrefixSelectsOwnDate ==
    /\ pc # "failed"
    /\ StacksBuilt =>
          \A k \in Positions, d \in 1..2 :
              /\ SelectPrefix(maskedLandsat[k], doys[d])
                    = BandsOfDate(maskedLandsat[k], d)
              /\ SelectPrefix(modSorted_t01[k], doys[d])
                    = BandsOfDate(modSorted_t01[k], d)


PairedBuilt == pc # "getPaired"

\* the times of the images of a collection
TimesOf(collection) == {TimeOf(collection[a]) : a \in 1..Len(collection)}

\* the subcollections whose target list holds an image of this time
SubsHolding(t) ==
    {a \in 1..Len(subs) : \E b \in 1..Len(subs[a][3]) :
                              TimeOf(subs[a][3][b]) = t}

\* how often the target lists hold an image of this time
TimesHeld(t) ==
    SumRange([a \in 1..Len(subs) |->
                 R(Cardinality({b \in 1..Len(subs[a][3]) :
                                  TimeOf(subs[a][3][b]) = t}))],
             1, Len(subs))

\* C26: getPaired splits the MODIS collection into the paired and the
\* unpaired images, which have no image in common and together are the
\* collection; every unpaired image dated between the first and the last
\* paired date is a target of exactly one subcollection, once.
C26_UnpairedCoveredOnce ==
    /\ PairedBuilt =>
          /\ TimesOf(paired[2]) \cap TimesOf(paired[3]) = {}
          /\ TimesOf(paired[2]) \cup TimesOf(paired[3])
                = TimesOf(modisCollection)
          /\ Len(paired[2]) + Len(paired[3]) = Len(modisCollection)
          /\ \A a \in 1..Len(paired[2]) :
                \E b \in 1..Len(paired[1]) :
                    TimeOf(paired[1][b]) = TimeOf(paired[2][a])
          /\ \A a \in 1..Len(paired[3]) :
                \A b \in 1..Len(landsatCollection) :
                    DateOf(TimeOf(landsatCollection[b]))
                        # DateOf(TimeOf(paired[3][a]))
    /\ (SubsBuilt /\ Len(PairedDates) >= 2) =>
          \A a \in 1..Len(paired[3]) :
              LET day == DateOf(TimeOf(paired[3][a]))
              IN  (PairedDates[1] < day /\ day < PairedDates[Len(PairedDates)])
                     => /\ Cardinality(SubsHolding(TimeOf(paired[3][a]))) = 1
                        /\ TimesHeld(TimeOf(paired[3][a])) = One

C26_Witness ==
    /\ SubsBuilt
    /\ Len(PairedDates) >= 3
    /\ Len(paired[1]) > Len(PairedDates)
    /\ \E a \in 1..Len(paired[3]) :
          DateOf(TimeOf(paired[3][a])) < PairedDates[1]
    /\ \E a \in 1..Len(paired[3]), b \in 1..Len(paired[3]) :
          /\ Cardinality(SubsHolding(TimeOf(paired[3][a]))) = 1
          /\ Cardinality(SubsHolding(TimeOf(paired[3][b]))) = 1
          /\ SubsHolding(TimeOf(paired[3][a]))
                # SubsHolding(TimeOf(paired[3][b]))


====
